---------------------------- MODULE Spec2Model ----------------------------
(***************************************************************************)
(* Orchestration core of examples/multi-agent-debate/main_chainlit.py:     *)
(* one run of on_chat_start, from the point where the four agents have     *)
(* been created (line 148) to its return or to the exception that leaves   *)
(* it.  The langroid Task scheduler, create_chat_agent and the transcript  *)
(* formatter are not part of the two source files; they follow sections    *)
(* 3, 4 and 6 of the specification.                                        *)
(***************************************************************************)
EXTENDS Integers, Sequences, FiniteSets, TLC

(* ------------------------------ bounds -------------------------------- *)
MaxTurns == 4
MaxSearches == 2
MaxQuestions == 1

(* ----------------------------- vocabulary ------------------------------ *)
NoneVal == "<None>"
Unbound == "<unbound>"
NoException == "<none>"

DebateAgents == {"Pro", "Con"}
AgentNames == {"Pro", "Con", "Feedback", "MetaphorSearch"}
TaskNames == {"user_task", "ai_task", "feedback_task",
              "metaphor_search_task", "ask_questions_task"}
Sides == {"pro", "con"}

\* text payloads the human may type, and str.strip() on them (line 180)
Texts == {"arg", " arg ", " "}
strip(t) == CASE t = " arg " -> "arg"
              [] t = " "     -> ""
              [] OTHER       -> t

\* what cl.AskUserMessage(...).send() can return (lines 172-175): None on
\* timeout, or a dict with some set of keys
NoResponseYet == [is_none |-> TRUE, keys |-> {"<pending>"}, output |-> ""]
Responses ==
    {[is_none |-> TRUE, keys |-> {}, output |-> ""]} \cup
    {[is_none |-> FALSE, keys |-> k, output |-> ""] : k \in {{}, {"id"}}} \cup
    {[is_none |-> FALSE, keys |-> k, output |-> t] :
        k \in {{"output"}, {"id", "output"}}, t \in Texts}

\* Python truthiness of the response and the test of line 179
Truthy(r) == ~r.is_none /\ r.keys # {}
ValidResponse(r) == Truthy(r) /\ "output" \in r.keys

VARIABLES
    pc,                   \* position in on_chat_start
    llm_delegate,         \* line 82
    max_turns,            \* line 83
    side,                 \* line 118
    agents,               \* the four agents' fields
    user_agent, ai_agent, \* line 155
    interactive_setting,  \* lines 166, 169
    user_input_response,  \* line 172
    user_input,           \* local of line 170, bound at line 180 only
    asks,                 \* number of AskUserMessage requests sent
    exception,            \* exception that left on_chat_start
    termination,          \* termination reason of the debate
    tasks,                \* the Task objects constructed so far
    cycles,               \* alternation cycles the Debate Task completed
    turn,                 \* whose step is next inside the Debate Task
    msg,                  \* message handed to the next step
    last_agent,           \* line 212
    warned,               \* logger.warning of line 217 was emitted
    formatted_history,    \* line 225
    feedback_runs,        \* completed feedback_task.run_async calls
    metaphor_search,      \* line 231
    searches,             \* search capability invocations
    url_docs_ask_questions, \* line 244
    searched_urls,        \* line 246
    questions,            \* exchanges of the Document Q&A loop
    research_turn,        \* who acts next inside the Research Task
    ask_questions_config, \* arguments of get_questions_agent_config, line 249
    same_llm,             \* line 81
    selected_model,       \* result of the pending select_model call
    configs,              \* the model configurations of lines 86-112
    cfg_pc,               \* position in the configuration step
    call_site             \* the get_base_llm_config call being evaluated

vars == <<pc, llm_delegate, max_turns, side, agents, user_agent, ai_agent,
          interactive_setting, user_input_response, user_input, asks,
          exception, termination, tasks, cycles, turn, msg, last_agent,
          warned, formatted_history, feedback_runs, metaphor_search,
          searches, url_docs_ask_questions, searched_urls, questions,
          research_turn, ask_questions_config, same_llm, selected_model,
          configs, cfg_pc, call_site>>

configVars == <<same_llm, selected_model, configs, cfg_pc, call_site>>
choiceVars == <<llm_delegate, max_turns, side, configVars>>
roleVars == <<user_agent, ai_agent, interactive_setting>>
inputVars == <<user_input_response, user_input, asks>>
debateVars == <<cycles, turn, msg>>
feedbackVars == <<last_agent, warned, formatted_history, feedback_runs>>
researchVars == <<metaphor_search, searches, url_docs_ask_questions,
                  searched_urls, questions, ask_questions_config,
                  research_turn>>

(* ----------------- lines 86-112: model configurations ------------------ *)
Models == {"gpt-4o", "gpt-4", "ollama/mistral"}
ConfigNames == {"pro_agent_config", "con_agent_config",
                "feedback_agent_config", "metaphor_search_agent_config"}
NoConfig == [chat_model |-> NoneVal, temperature |-> NoneVal]

\* the configuration a call get_base_llm_config(model[, temperature=t]) is
\* written to obtain (lines 88-90, 103-111)
BaseConfig(m, t) == [chat_model |-> m, temperature |-> t]

\* lines 94-100: the shared configuration with the temperature overridden
FeedbackFromShared(shared) ==
    [chat_model |-> shared.chat_model, temperature |-> "0.2"]

\* the four configurations once lines 86-112 have completed
Configured(same, m1, m2, m3) ==
    IF same
    THEN [c \in ConfigNames |->
            IF c \in {"pro_agent_config", "con_agent_config"}
            THEN BaseConfig(m1, "default")
            ELSE FeedbackFromShared(BaseConfig(m1, "default"))]
    ELSE [c \in ConfigNames |->
            CASE c = "pro_agent_config" -> BaseConfig(m1, "default")
              [] c = "con_agent_config" -> BaseConfig(m2, "default")
              [] OTHER -> BaseConfig(m3, "0.2")]

(* ------------------------------ agents --------------------------------- *)
\* create_chat_agent / MetaphorSearchChatAgent (lines 127-146): bound model
\* configuration, no human value, empty history, no capability enabled
NewAgent(cfg) ==
    [llm |-> cfg, user_message |-> NoneVal, message_history |-> <<>>,
     tools |-> {}]

AgentConfig(a) ==
    CASE a = "Pro" -> "pro_agent_config"
      [] a = "Con" -> "con_agent_config"
      [] a = "Feedback" -> "feedback_agent_config"
      [] OTHER -> "metaphor_search_agent_config"

\* faulty variant of AiAgentOf: both entries of a row name the same agent
AiAgentSame(s) == IF s = "pro" THEN "Pro" ELSE "Con"

\* the agents dictionary of lines 151-155
UserAgentOf(s) == IF s = "pro" THEN "Pro" ELSE "Con"
AiAgentOf(s) == IF s = "pro" THEN "Con" ELSE "Pro"

NoTask == [agent |-> NoneVal, interactive |-> FALSE, single_round |-> FALSE,
           restart |-> FALSE, status |-> "absent", runs |-> 0]
NewTask(a, i, sr, rs) ==
    [agent |-> a, interactive |-> i, single_round |-> sr, restart |-> rs,
     status |-> "constructed", runs |-> 0]

\* the restart flag: a task built with it starts its agent from an empty
\* history, and so does each of its runs as the top-level task (its own
\* agent and its sub-tasks' agents); a run as a nested task resets nothing
init_state(ag, as) ==
    [a \in DOMAIN ag |->
        IF a \in as THEN [ag[a] EXCEPT !.message_history = <<>>] ELSE ag[a]]
ConstructTask(ag, a, rs) == IF rs THEN init_state(ag, {a}) ELSE ag
SubTasks(t) == IF t = "user_task" THEN {"ai_task"} ELSE {}
RunTopLevel(ag, ts, t) ==
    IF ts[t].restart
    THEN init_state(ag, {ts[u].agent : u \in {t} \cup SubTasks(t)})
    ELSE ag

Append1(ag, a, rec) ==
    [ag EXCEPT ![a].message_history = Append(@, rec)]

Record(role, text, n) == [role |-> role, content |-> <<text, n>>]

\* the arguments of get_questions_agent_config at lines 249-251
NoConfigArgs == [urls |-> {}, chat_model |-> NoneVal]
QuestionsAgentConfigArgs(urls, feedback_cfg) ==
    [urls |-> urls, chat_model |-> feedback_cfg.chat_model]

Init ==
    /\ pc = "sides"
    /\ llm_delegate \in BOOLEAN
    /\ max_turns \in 0..MaxTurns
    /\ side \in Sides
    /\ agents = [a \in AgentNames |-> NewAgent(AgentConfig(a))]
    /\ user_agent = NoneVal
    /\ ai_agent = NoneVal
    /\ interactive_setting = FALSE
    /\ user_input_response = NoResponseYet
    /\ user_input = Unbound
    /\ asks = 0
    /\ exception = NoException
    /\ termination = NoneVal
    /\ tasks = [t \in TaskNames |-> NoTask]
    /\ cycles = 0
    /\ turn = NoneVal
    /\ msg = NoneVal
    /\ last_agent = NoneVal
    /\ warned = FALSE
    /\ formatted_history = <<>>
    /\ feedback_runs = 0
    /\ metaphor_search = FALSE
    /\ searches = 0
    /\ url_docs_ask_questions = FALSE
    /\ searched_urls = {}
    /\ questions = 0
    /\ ask_questions_config = NoConfigArgs
    /\ research_turn = NoneVal
    /\ same_llm \in BOOLEAN
    /\ selected_model = NoneVal
    /\ configs \in {Configured(same_llm, m1, m2, m3) :
                       m1 \in Models, m2 \in Models, m3 \in Models}
    /\ cfg_pc = "configured"
    /\ call_site = NoneVal

(* ----------------------- lines 150-196: set-up ------------------------- *)
\* lines 150-155
AssignSides ==
    /\ pc = "sides"
    /\ user_agent' = UserAgentOf(side)
    /\ ai_agent' = AiAgentOf(side)
    /\ pc' = "mode"
    /\ UNCHANGED <<choiceVars, agents, interactive_setting, inputVars,
                   exception, termination, tasks, debateVars, feedbackVars,
                   researchVars>>

\* faulty variants of the two definitions below: a debate that is never
\* flagged interactive, and a branch that solicits input in either mode
InteractiveNever(delegate) == FALSE
AfterModeAlwaysAsk(delegate) == "ask"

\* lines 164-169: the interactive flag and the branch taken
InteractiveSetting(delegate) == ~delegate
AfterMode(delegate) == IF delegate THEN "tasks" ELSE "ask"

SelectMode ==
    /\ pc = "mode"
    /\ interactive_setting' = InteractiveSetting(llm_delegate)
    /\ pc' = AfterMode(llm_delegate)
    /\ UNCHANGED <<choiceVars, agents, user_agent, ai_agent, inputVars,
                   exception, termination, tasks, debateVars, feedbackVars,
                   researchVars>>

\* lines 172-177: the one request to the human-input channel
AskUserMessage ==
    /\ pc = "ask"
    /\ \E r \in Responses : user_input_response' = r
    /\ asks' = asks + 1
    /\ pc' = "check"
    /\ UNCHANGED <<choiceVars, agents, roleVars, user_input, exception,
                   termination, tasks, debateVars, feedbackVars,
                   researchVars>>

\* faulty variant of SetHumanInput: the model stays bound
SetHumanInputKeepModel(ag, ua, v) == [ag EXCEPT ![ua].user_message = v]

\* lines 182-183 and 195-196: bind the human value in place of the model
SetHumanInput(ag, ua, v) ==
    [ag EXCEPT ![ua].llm = NoneVal, ![ua].user_message = v]

\* lines 179-192: a valid response binds user_input and the agent; anything
\* else raises TimeoutError, which the handler of line 190 logs and drops
ProcessResponse ==
    /\ pc = "check"
    /\ IF ValidResponse(user_input_response)
       THEN /\ user_input' = strip(user_input_response.output)
            /\ agents' = SetHumanInput(agents, user_agent,
                                       strip(user_input_response.output))
            /\ UNCHANGED termination
       ELSE /\ termination' = "no-response"
            /\ UNCHANGED <<user_input, agents>>
    /\ pc' = "assign"
    /\ UNCHANGED <<choiceVars, roleVars, user_input_response, asks, exception,
                   tasks, debateVars, feedbackVars, researchVars>>

\* faulty variant of ReadUserInput: an unassigned local reads as ""
ReadUserInputDefault(ui) ==
    [raised |-> FALSE, value |-> IF ui = Unbound THEN "" ELSE ui]

\* the read of the local user_input at line 196: a local that was never
\* assigned raises UnboundLocalError
ReadUserInput(ui) ==
    IF ui = Unbound THEN [raised |-> TRUE, value |-> NoneVal]
                    ELSE [raised |-> FALSE, value |-> ui]

\* lines 195-196: llm is cleared first, then user_input is read
AssignUserInput ==
    /\ pc = "assign"
    /\ LET rd == ReadUserInput(user_input) IN
       IF rd.raised
       THEN /\ agents' = [agents EXCEPT ![user_agent].llm = NoneVal]
            /\ exception' = "UnboundLocalError"
            /\ pc' = "raised"
       ELSE /\ agents' = SetHumanInput(agents, user_agent, rd.value)
            /\ UNCHANGED exception
            /\ pc' = "tasks"
    /\ UNCHANGED <<choiceVars, roleVars, inputVars, termination, tasks,
                   debateVars, feedbackVars, researchVars>>

(* --------------------- lines 198-208: Debate Task ---------------------- *)
\* faulty variants of AiTaskAgent: the nested task is given the user agent,
\* or the feedback agent
AiTaskAgentUser(ua, aa) == ua
AiTaskAgentFeedback(ua, aa) == "Feedback"

\* the agents handed to Task at lines 199 and 200
UserTaskAgent(ua, aa) == ua
AiTaskAgent(ua, aa) == aa

\* lines 199-202: user_task drives the user agent, ai_task (single round)
\* the ai agent, and ai_task becomes user_task's sub-task
SetupTasks ==
    /\ pc = "tasks"
    /\ tasks' = [tasks EXCEPT
                   !["user_task"] =
                       NewTask(UserTaskAgent(user_agent, ai_agent),
                               interactive_setting, FALSE, FALSE),
                   !["ai_task"] =
                       NewTask(AiTaskAgent(user_agent, ai_agent),
                               FALSE, TRUE, TRUE)]
    /\ agents' = ConstructTask(
                    ConstructTask(agents,
                                  UserTaskAgent(user_agent, ai_agent), FALSE),
                    AiTaskAgent(user_agent, ai_agent), TRUE)
    /\ pc' = "debate"
    /\ UNCHANGED <<choiceVars, roleVars, inputVars, exception,
                   termination, debateVars, feedbackVars, researchVars>>

\* faulty variant of DebateTurnsArg: a budget that is one too large
DebateTurnsArgPlusOne(mt) == mt + 1

\* the arguments of run_async at lines 205 and 208
DebateTurnsArg(mt) == mt
DebateSeed(delegate, um) == IF delegate THEN "get started" ELSE um

\* number of alternation cycles the Debate Task schedules: the turn budget,
\* or the single round of an interactive debate
CycleLimit(interactive, turns) == IF interactive THEN 1 ELSE turns

Limit == CycleLimit(tasks["user_task"].interactive, DebateTurnsArg(max_turns))

Finish(ts, t) == [ts EXCEPT ![t].status = "done", ![t].runs = @ + 1]

\* lines 203-208: run_async starts the Debate Task on the primary side
DebateStart ==
    /\ pc = "debate"
    /\ msg' = DebateSeed(llm_delegate, agents[user_agent].user_message)
    /\ IF Limit = 0
       THEN /\ tasks' = Finish(tasks, "user_task")
            /\ termination' = "turn-budget-exhausted"
            /\ turn' = NoneVal
            /\ pc' = "last"
       ELSE /\ tasks' = [tasks EXCEPT !["user_task"].status = "running"]
            /\ turn' = "user"
            /\ pc' = "running"
            /\ UNCHANGED termination
    /\ agents' = RunTopLevel(agents, tasks, "user_task")
    /\ UNCHANGED <<choiceVars, roleVars, inputVars, exception,
                   cycles, feedbackVars, researchVars>>

\* the agents the two tasks of the debate drive
Primary == tasks["user_task"].agent
Opposing == tasks["ai_task"].agent

\* what the primary agent says: its human value when it has one and no
\* model, otherwise a model utterance
Utterance(ag, a) ==
    IF ag[a].llm = NoneVal THEN ag[a].user_message ELSE "llm"

\* primary step of a cycle
UserStep ==
    /\ pc = "running"
    /\ turn = "user"
    /\ agents' = Append1(agents, Primary,
                         Record(Primary, Utterance(agents, Primary),
                                cycles + 1))
    /\ msg' = Utterance(agents, Primary)
    /\ turn' = "ai"
    /\ UNCHANGED <<pc, choiceVars, roleVars, inputVars, exception,
                   termination, tasks, cycles, feedbackVars, researchVars>>

\* the primary agent's model emits the done signal
UserDone ==
    /\ pc = "running"
    /\ turn = "user"
    /\ agents[Primary].llm # NoneVal
    /\ agents' = Append1(agents, Primary,
                         Record(Primary, "DONE", cycles + 1))
    /\ msg' = "DONE"
    /\ turn' = NoneVal
    /\ tasks' = Finish(tasks, "user_task")
    /\ termination' = "explicit-done-signal"
    /\ pc' = "last"
    /\ UNCHANGED <<choiceVars, roleVars, inputVars, exception, cycles,
                   feedbackVars, researchVars>>

\* opposing step: one run of the single-round nested task closes the cycle
AiStep ==
    /\ pc = "running"
    /\ turn = "ai"
    /\ agents' = Append1(agents, Opposing,
                         Record(Opposing, "llm", cycles + 1))
    /\ msg' = "llm"
    /\ cycles' = cycles + 1
    /\ IF cycles + 1 >= Limit
       THEN /\ tasks' = Finish([tasks EXCEPT !["ai_task"].runs = @ + 1],
                               "user_task")
            /\ termination' = "turn-budget-exhausted"
            /\ turn' = NoneVal
            /\ pc' = "last"
       ELSE /\ tasks' = [tasks EXCEPT !["ai_task"].runs = @ + 1]
            /\ turn' = "user"
            /\ UNCHANGED <<termination, pc>>
    /\ UNCHANGED <<choiceVars, roleVars, inputVars, exception, feedbackVars,
                   researchVars>>

\* the opposing agent's reply carries the done signal before the budget is
\* used up
AiDone ==
    /\ pc = "running"
    /\ turn = "ai"
    /\ cycles + 1 < Limit
    /\ agents' = Append1(agents, Opposing,
                         Record(Opposing, "DONE", cycles + 1))
    /\ msg' = "DONE"
    /\ cycles' = cycles + 1
    /\ tasks' = Finish([tasks EXCEPT !["ai_task"].runs = @ + 1], "user_task")
    /\ termination' = "explicit-done-signal"
    /\ turn' = NoneVal
    /\ pc' = "last"
    /\ UNCHANGED <<choiceVars, roleVars, inputVars, exception, feedbackVars,
                   researchVars>>

(* -------------------- lines 210-229: Feedback Task --------------------- *)
\* line 212
LastAgent(mt, ua, aa) == IF mt % 2 = 0 THEN aa ELSE ua

\* faulty variant of EmptyHistory: the warning condition never holds
EmptyHistoryNever(h) == FALSE

\* line 216
EmptyHistory(h) == h = <<>>

\* lines 210-217
SelectLastAgent ==
    /\ pc = "last"
    /\ last_agent' = LastAgent(max_turns, user_agent, ai_agent)
    /\ warned' = EmptyHistory(
                    agents[LastAgent(max_turns, user_agent, ai_agent)]
                        .message_history)
    /\ pc' = "feedback"
    /\ UNCHANGED <<choiceVars, agents, roleVars, inputVars, exception,
                   termination, tasks, debateVars, formatted_history,
                   feedback_runs, researchVars>>

\* transcript formatter: one role-tagged line per turn record, in order
parse_and_format_message_history(h) ==
    [i \in 1..Len(h) |-> <<h[i].role, ": ", h[i].content[1]>>]

\* faulty variant of FeedbackTranscript: the last turn record is left out
FeedbackTranscriptShort(ag, la) ==
    parse_and_format_message_history(
        SubSeq(ag[la].message_history, 1, Len(ag[la].message_history) - 1))

\* the argument of line 225
FeedbackTranscript(ag, la) ==
    parse_and_format_message_history(ag[la].message_history)

\* faulty variant of FeedbackTaskAgent: the task is given the last agent
FeedbackTaskAgentLast(la) == la

\* the agent handed to Task at line 220
FeedbackTaskAgent(la) == "Feedback"

\* lines 219-226: the task is built first, the transcript formatted after
FeedbackStart ==
    /\ pc = "feedback"
    /\ tasks' = [tasks EXCEPT
                   !["feedback_task"] =
                       NewTask(FeedbackTaskAgent(last_agent),
                               FALSE, TRUE, TRUE)]
    /\ agents' = ConstructTask(agents, FeedbackTaskAgent(last_agent), TRUE)
    /\ formatted_history' = FeedbackTranscript(agents', last_agent)
    /\ pc' = "feedback_run"
    /\ UNCHANGED <<choiceVars, roleVars, inputVars, exception,
                   termination, debateVars, last_agent, warned,
                   feedback_runs, researchVars>>

\* judgments the feedback agent's model may return
Judgments == {"Pro wins", "Con wins"}

\* lines 227-229: one request/response step of the feedback agent
FeedbackRun ==
    /\ pc = "feedback_run"
    /\ \E v \in Judgments :
          agents' = Append1(RunTopLevel(agents, tasks, "feedback_task"),
                            tasks["feedback_task"].agent,
                            Record(tasks["feedback_task"].agent, v,
                                   Len(formatted_history)))
    /\ tasks' = Finish(tasks, "feedback_task")
    /\ feedback_runs' = feedback_runs + 1
    /\ pc' = "gate"
    /\ UNCHANGED <<choiceVars, roleVars, inputVars, exception, termination,
                   debateVars, last_agent, warned, formatted_history,
                   researchVars>>

(* ------------- lines 231-255: Research and Document Q&A ---------------- *)
\* faulty variants of GateBranch: the gate is ignored
GateBranchAlways(g) == "research"
GateBranchNever(g) == "done"

\* line 233
GateBranch(g) == IF g THEN "research" ELSE "done"

\* lines 231-233
CheckGate ==
    /\ pc = "gate"
    /\ \E g \in BOOLEAN :
          /\ metaphor_search' = g
          /\ pc' = GateBranch(g)
    /\ UNCHANGED <<choiceVars, agents, roleVars, inputVars, exception,
                   termination, tasks, debateVars, feedbackVars, searches,
                   url_docs_ask_questions, searched_urls, questions,
                   ask_questions_config, research_turn>>

\* faulty variant of ResearchBudget: a budget of one step
ResearchBudgetOne == [bounded |-> TRUE, turns |-> 1]

\* line 242: run_async("run the search") is given no turns argument
ResearchBudget == [bounded |-> FALSE, turns |-> 0]

BudgetExhausted(b, n) == b.bounded /\ n >= b.turns

\* faulty variant of EnabledTools: the done capability is not enabled
EnabledToolsSearchOnly == {"MetaphorSearchTool"}

\* lines 239-240: the capabilities enable_message grants
EnabledTools == {"MetaphorSearchTool", "DoneTool"}

\* lines 234-242: the task is built, the two tools enabled, the run started
ResearchStart ==
    /\ pc = "research"
    /\ tasks' = [tasks EXCEPT
                   !["metaphor_search_task"] =
                       [NewTask("MetaphorSearch", FALSE, FALSE, TRUE)
                           EXCEPT !.status = "running"]]
    /\ agents' = [ConstructTask(agents, "MetaphorSearch", TRUE)
                     EXCEPT !["MetaphorSearch"].tools = @ \cup EnabledTools]
    /\ research_turn' = "agent"
    /\ pc' = "research_run"
    /\ UNCHANGED <<choiceVars, roleVars, inputVars, exception, termination,
                   debateVars, feedbackVars, metaphor_search, searches,
                   url_docs_ask_questions, searched_urls, questions,
                   ask_questions_config>>

\* the research agent's model asks for a search
ResearchInvokeSearch ==
    /\ pc = "research_run"
    /\ research_turn = "agent"
    /\ "MetaphorSearchTool" \in agents["MetaphorSearch"].tools
    /\ research_turn' = "tool"
    /\ UNCHANGED <<pc, choiceVars, agents, roleVars, inputVars, exception,
                   termination, tasks, debateVars, feedbackVars,
                   metaphor_search, searches, url_docs_ask_questions,
                   searched_urls, questions, ask_questions_config>>

\* the search capability answers.  The history keeps the first MaxSearches
\* results; the agent may go on searching after that, the later results
\* are not recorded.
ResearchSearch ==
    /\ pc = "research_run"
    /\ research_turn = "tool"
    /\ IF searches < MaxSearches
       THEN /\ agents' = Append1(agents, "MetaphorSearch",
                                 Record("MetaphorSearch", "url", searches + 1))
            /\ searches' = searches + 1
       ELSE UNCHANGED <<agents, searches>>
    /\ IF BudgetExhausted(ResearchBudget, searches')
       THEN /\ tasks' = Finish(tasks, "metaphor_search_task")
            /\ research_turn' = NoneVal
            /\ pc' = "eligible"
       ELSE /\ research_turn' = "agent"
            /\ UNCHANGED <<tasks, pc>>
    /\ UNCHANGED <<choiceVars, roleVars, inputVars, exception,
                   termination, debateVars, feedbackVars,
                   metaphor_search, url_docs_ask_questions, searched_urls,
                   questions, ask_questions_config>>

\* the done capability ends the research run (line 242 returns)
ResearchDone ==
    /\ pc = "research_run"
    /\ research_turn = "agent"
    /\ "DoneTool" \in agents["MetaphorSearch"].tools
    /\ agents' = Append1(agents, "MetaphorSearch",
                         Record("MetaphorSearch", "DONE", searches))
    /\ tasks' = Finish(tasks, "metaphor_search_task")
    /\ research_turn' = NoneVal
    /\ pc' = "eligible"
    /\ UNCHANGED <<choiceVars, roleVars, inputVars, exception, termination,
                   debateVars, feedbackVars, metaphor_search, searches,
                   url_docs_ask_questions, searched_urls, questions,
                   ask_questions_config>>

\* faulty variant of EligibleBranch: the predicate is ignored
EligibleBranchAlways(e) == "docqa"

\* line 245
EligibleBranch(e) == IF e THEN "docqa" ELSE "done"

\* lines 244-245
CheckEligibility ==
    /\ pc = "eligible"
    /\ \E e \in BOOLEAN :
          /\ url_docs_ask_questions' = e
          /\ pc' = EligibleBranch(e)
    /\ UNCHANGED <<choiceVars, agents, roleVars, inputVars, exception,
                   termination, tasks, debateVars, feedbackVars,
                   metaphor_search, searches, searched_urls, questions,
                   ask_questions_config, research_turn>>

\* references found in the search results of a history
extract_urls(h) ==
    {h[i].content[2] : i \in {j \in 1..Len(h) : h[j].content[1] = "url"}}

\* lines 246-255 up to the start of the run
DocQAStart ==
    /\ pc = "docqa"
    /\ searched_urls' = extract_urls(agents["MetaphorSearch"].message_history)
    /\ ask_questions_config' =
          QuestionsAgentConfigArgs(
              extract_urls(agents["MetaphorSearch"].message_history),
              configs["feedback_agent_config"])
    /\ tasks' = [tasks EXCEPT
                   !["ask_questions_task"] =
                       [NewTask("DocQA", TRUE, FALSE, TRUE)
                           EXCEPT !.status = "running"]]
    /\ pc' = "docqa_run"
    /\ UNCHANGED <<choiceVars, agents, roleVars, inputVars, exception,
                   termination, debateVars, feedbackVars, metaphor_search,
                   searches, url_docs_ask_questions, questions,
                   research_turn>>

\* one question of the external actor answered from the documents
DocQAQuestion ==
    /\ pc = "docqa_run"
    /\ questions < MaxQuestions
    /\ questions' = questions + 1
    /\ UNCHANGED <<pc, choiceVars, agents, roleVars, inputVars, exception,
                   termination, tasks, debateVars, feedbackVars,
                   metaphor_search, searches, url_docs_ask_questions,
                   searched_urls, ask_questions_config, research_turn>>

\* the external actor ends the session ("x"); line 255 returns
DocQAEnd ==
    /\ pc = "docqa_run"
    /\ tasks' = Finish(tasks, "ask_questions_task")
    /\ pc' = "done"
    /\ UNCHANGED <<choiceVars, agents, roleVars, inputVars, exception,
                   termination, debateVars, feedbackVars, researchVars>>

Next ==
    \/ AssignSides
    \/ SelectMode
    \/ AskUserMessage
    \/ ProcessResponse
    \/ AssignUserInput
    \/ SetupTasks
    \/ DebateStart
    \/ UserStep
    \/ UserDone
    \/ AiStep
    \/ AiDone
    \/ SelectLastAgent
    \/ FeedbackStart
    \/ FeedbackRun
    \/ CheckGate
    \/ ResearchStart
    \/ ResearchInvokeSearch
    \/ ResearchSearch
    \/ ResearchDone
    \/ CheckEligibility
    \/ DocQAStart
    \/ DocQAQuestion
    \/ DocQAEnd

Spec == Init /\ [][Next]_vars

\* one thread of control: a step that can be taken is eventually taken
FairSpec == Spec /\ WF_vars(Next)

(* ------------------------ properties of the run ------------------------ *)
DebateStatus == tasks["user_task"].status
DebateTerminal == DebateStatus = "done"
Responded == asks = 1 /\ user_input_response # NoResponseYet
Ended == pc \in {"done", "raised"}
History(a) == agents[a].message_history
DebateStep == DebateStart \/ UserStep \/ UserDone \/ AiStep \/ AiDone

\* C1: in interactive mode, when the human-input request returns no response
\* or a response without an 'output' entry, the debate ends with the
\* no-response condition, no exception leaves on_chat_start and the Feedback
\* Task is still run.
C1_NoResponseStillFeedback ==
    (Ended /\ ~llm_delegate /\ Responded
       /\ ~ValidResponse(user_input_response))
    => /\ termination = "no-response"
       /\ exception = NoException
       /\ feedback_runs = 1

\* C2: the agent selected as last speaker is the ai agent iff the number of
\* completed cycles is even, and the user agent iff it is odd.
C2_LastSpeakerParity ==
    last_agent # NoneVal
    => /\ (last_agent = ai_agent) <=> (cycles % 2 = 0)
       /\ (last_agent = user_agent) <=> (cycles % 2 = 1)

\* C3: an autonomous Debate Task never performs more than max_turns cycles;
\* when it is terminal it has performed exactly max_turns cycles unless a
\* done signal ended it, and then fewer; once it is terminal no further turn
\* of either debating agent happens.
C3_AutonomousCycleBudget ==
    /\ [](llm_delegate =>
            /\ cycles <= max_turns
            /\ DebateTerminal =>
                 /\ termination \in {"turn-budget-exhausted",
                                     "explicit-done-signal"}
                 /\ termination = "turn-budget-exhausted"
                      => cycles = max_turns
                 /\ termination = "explicit-done-signal"
                      => cycles < max_turns
                 /\ ~ENABLED DebateStep)
    /\ [][(llm_delegate /\ DebateTerminal)
            => /\ cycles' = cycles
               /\ History("Pro")' = History("Pro")
               /\ History("Con")' = History("Con")
               /\ DebateTerminal']_vars

C3_Witness ==
    /\ llm_delegate
    /\ DebateTerminal
    /\ termination = "turn-budget-exhausted"
    /\ cycles = max_turns
    /\ max_turns >= 2
    /\ pc = "done"

\* C4: whenever the Feedback Task exists, the Debate Task is terminal and can
\* schedule no turn, and the transcript computed for it is the formatted
\* history of the selected agent as it stands after the debate.
C4_FeedbackAfterDebate ==
    tasks["feedback_task"].status # "absent"
    => /\ DebateTerminal
       /\ ~ENABLED DebateStep
       /\ last_agent \in {user_agent, ai_agent}
       /\ formatted_history =
             parse_and_format_message_history(History(last_agent))

C4_Witness ==
    /\ tasks["feedback_task"].status = "done"
    /\ DebateTerminal
    /\ Len(formatted_history) >= 2

ResearchArtefacts ==
    \/ tasks["metaphor_search_task"].status # "absent"
    \/ tasks["ask_questions_task"].status # "absent"
    \/ \E a \in AgentNames : agents[a].tools # {}
    \/ searches # 0
    \/ searched_urls # {}
    \/ questions # 0
    \/ research_turn # NoneVal
    \/ \E a \in AgentNames : extract_urls(History(a)) # {}
GateRead ==
    pc \in {"research", "research_run", "eligible", "docqa", "docqa_run",
            "done"}

\* C5: while the capability gate is false no Research or Document Q&A task
\* exists, no capability is enabled or invoked and no reference is
\* extracted; once the gate has been read as false the session has ended
\* without an exception.
C5_GateFalseSkipsResearch ==
    ~metaphor_search
    => /\ ~ResearchArtefacts
       /\ GateRead => (pc = "done" /\ exception = NoException)

C5_Witness ==
    /\ pc = "done"
    /\ ~metaphor_search
    /\ feedback_runs = 1

C7_SolicitOnceBeforeDebate ==
    /\ [](/\ llm_delegate => asks = 0
          /\ asks <= 1
          /\ (DebateStatus # "absent" /\ ~llm_delegate) => asks = 1)
    /\ [][asks' # asks
            => (~llm_delegate /\ asks = 0 /\ DebateStatus = "absent")]_vars

C7_Witness ==
    /\ ~llm_delegate
    /\ asks = 1
    /\ DebateTerminal
    /\ cycles = 1

\* C8: while the Debate Task is running no agent has both a human-input
\* value and a bound model; in interactive mode the user agent has the human
\* value and no model and the ai agent a model and no human value; in
\* autonomous mode neither debating agent has a human value.
C8_HumanXorModel ==
    DebateStatus = "running"
    => /\ \A a \in AgentNames :
             ~(agents[a].user_message # NoneVal /\ agents[a].llm # NoneVal)
       /\ ~llm_delegate =>
             /\ agents[user_agent].user_message # NoneVal
             /\ agents[user_agent].llm = NoneVal
             /\ agents[ai_agent].user_message = NoneVal
             /\ agents[ai_agent].llm # NoneVal
       /\ llm_delegate =>
             /\ agents[user_agent].user_message = NoneVal
             /\ agents[ai_agent].user_message = NoneVal

C8_Witness ==
    /\ DebateStatus = "running"
    /\ ~llm_delegate
    /\ turn = "ai"

\* C9: the warning is emitted exactly when the selected agent's history is
\* empty; after it the Feedback Task is still constructed and run exactly
\* once, on the empty transcript, and the session does not abort.
C9_EmptyHistoryWarning ==
    last_agent # NoneVal
    => /\ warned <=> History(last_agent) = <<>>
       /\ warned =>
            /\ exception = NoException
            /\ pc # "raised"
            /\ pc # "done" => ENABLED Next
            /\ pc = "feedback" => feedback_runs = 0
            /\ pc = "feedback_run" =>
                 /\ feedback_runs = 0
                 /\ tasks["feedback_task"].status = "constructed"
                 /\ formatted_history = <<>>
            /\ pc \notin {"feedback", "feedback_run"} =>
                 /\ feedback_runs = 1
                 /\ tasks["feedback_task"].runs = 1
                 /\ formatted_history = <<>>
                 /\ Len(History("Feedback")) = 1

C9_Witness ==
    /\ warned
    /\ pc = "done"
    /\ feedback_runs = 1

\* C10: after an empty or malformed response the Debate Task is never
\* constructed or run, no message is handed to it, the user agent holds no
\* human-input value and the histories of both debating agents are empty as
\* they were before the solicitation.
C10_NoFabricatedTurn ==
    (Responded /\ ~ValidResponse(user_input_response))
    => /\ DebateStatus = "absent"
       /\ tasks["ai_task"].status = "absent"
       /\ cycles = 0
       /\ msg = NoneVal
       /\ user_input = Unbound
       /\ agents[user_agent].user_message = NoneVal
       /\ History("Pro") = <<>>
       /\ History("Con") = <<>>

C10_Witness ==
    /\ Responded
    /\ ~ValidResponse(user_input_response)
    /\ pc = "raised"

\* C11: the Document Q&A Task exists only when the Research Task has run
\* to completion and the eligibility predicate returned true; it is seeded
\* with the references extracted from the research agent's history as it
\* stands after that run and with the feedback configuration's chat model.
C11_DocQAOnlyAfterResearch ==
    /\ tasks["ask_questions_task"].status # "absent"
       => /\ metaphor_search
          /\ tasks["metaphor_search_task"].status = "done"
          /\ tasks["metaphor_search_task"].runs = 1
          /\ url_docs_ask_questions
          /\ searched_urls = extract_urls(History("MetaphorSearch"))
          /\ ask_questions_config.urls = searched_urls
          /\ ask_questions_config.chat_model
                = configs["feedback_agent_config"].chat_model
          /\ ask_questions_config.chat_model \in Models
    /\ tasks["ask_questions_task"].status = "absent"
       => /\ ask_questions_config = NoConfigArgs
          /\ searched_urls = {}
          /\ questions = 0
    /\ (pc = "done" /\ ~(metaphor_search /\ url_docs_ask_questions))
       => tasks["ask_questions_task"].status = "absent"

C11_Witness ==
    /\ tasks["ask_questions_task"].status = "done"
    /\ Cardinality(searched_urls) = MaxSearches
    /\ ask_questions_config.urls = searched_urls
    /\ pc = "done"


ResearchStatus == tasks["metaphor_search_task"].status
ResearchStep == ResearchInvokeSearch \/ ResearchSearch \/ ResearchDone
EndsWithDone(h) == Len(h) > 0 /\ h[Len(h)].content[1] = "DONE"

C13_ResearchCapabilities ==
    /\ ResearchStatus = "running"
       => agents["MetaphorSearch"].tools = {"MetaphorSearchTool", "DoneTool"}
    /\ (research_turn # NoneVal \/ searches > 0
          \/ History("MetaphorSearch") # <<>>)
       => agents["MetaphorSearch"].tools = {"MetaphorSearchTool", "DoneTool"}
    /\ agents["MetaphorSearch"].tools
          \subseteq {"MetaphorSearchTool", "DoneTool"}
    /\ ResearchStatus = "absent" => agents["MetaphorSearch"].tools = {}
    /\ \A a \in AgentNames \ {"MetaphorSearch"} : agents[a].tools = {}

C13_Witness ==
    /\ ResearchStatus = "running"
    /\ research_turn = "tool"
    /\ searches = 1
    /\ agents["MetaphorSearch"].tools = {"MetaphorSearchTool", "DoneTool"}


IsPrefix(h1, h2) == Len(h1) <= Len(h2) /\ SubSeq(h2, 1, Len(h1)) = h1

\* C14: every agent's history is empty at first, and every step leaves each
\* agent's history a prefix of what it is after the step: records are only
\* appended, never changed or removed, across task constructions, the
\* repeated runs of the nested ai task and the runs of the other tasks.
C14_HistoriesOnlyGrow ==
    /\ \A a \in AgentNames : History(a) = <<>>
    /\ [][\A a \in AgentNames : IsPrefix(History(a), History(a)')]_vars

C14_Witness ==
    /\ pc = "done"
    /\ llm_delegate
    /\ cycles >= 2
    /\ Len(History(ai_agent)) = cycles
    /\ tasks["ai_task"].runs = cycles
    /\ Len(History("Feedback")) = 1
    /\ Len(History("MetaphorSearch")) = MaxSearches + 1


FeedbackStatus == tasks["feedback_task"].status
DocQAStatus == tasks["ask_questions_task"].status
OutsideDebate(ag) ==
    [a \in AgentNames \ DebateAgents |-> ag[a]]

\* what a step of the running Debate Task leaves alone
DebateFrame ==
    /\ OutsideDebate(agents') = OutsideDebate(agents)
    /\ \A a \in DebateAgents :
          /\ agents'[a].tools = agents[a].tools
          /\ agents'[a].llm = agents[a].llm
          /\ agents'[a].user_message = agents[a].user_message
    /\ \A t \in TaskNames \ {"user_task", "ai_task"} : tasks'[t] = tasks[t]

\* C15: every step taken from the start of the Debate Task's run to its
\* termination changes, among the agents, only the user and the ai agent:
\* the feedback and the research agent keep their histories, capability
\* sets and other fields, and of the two debating agents only the history
\* changes.
C15_DebateFrame == [][(pc \in {"debate", "running"}) => DebateFrame]_vars

C15_Witness ==
    /\ pc = "running"
    /\ turn = "user"
    /\ cycles = 2
    /\ Len(History(user_agent)) = 2
    /\ Len(History(ai_agent)) = 2
    /\ History("Feedback") = <<>>
    /\ History("MetaphorSearch") = <<>>


TopTasks == {"user_task", "feedback_task", "metaphor_search_task",
             "ask_questions_task"}
Started(t) == tasks[t].status \in {"running", "done"}

\* the task that is taking a step on its agent in the current state
Driving(t) ==
    CASE t = "user_task" -> DebateStatus = "running" /\ turn = "user"
      [] t = "ai_task" -> DebateStatus = "running" /\ turn = "ai"
      [] t = "feedback_task" -> pc = "feedback_run"
      [] OTHER -> tasks[t].status = "running"

HistoryOwned ==
    \A a \in AgentNames :
       agents'[a].message_history # agents[a].message_history
       => /\ \E t \in TaskNames : tasks[t].agent = a /\ Driving(t)
          /\ Cardinality({t \in TaskNames : Driving(t)}) = 1

\* C16: at most one of the session's tasks is running at any time; the
\* tasks start in the order Debate, Feedback, Research, Document Q&A, each
\* only after the one before it has terminated; no two of the tasks built
\* drive the same agent; and a step changes an agent's history only when
\* the one task taking a step is the task that drives that agent.
C16_SequentialTasks ==
    /\ [](/\ Cardinality({t \in TopTasks : tasks[t].status = "running"}) <= 1
          /\ Cardinality({t \in TaskNames : Driving(t)}) <= 1
          /\ tasks["feedback_task"].status # "absent" => DebateTerminal
          /\ tasks["metaphor_search_task"].status # "absent"
               => FeedbackStatus = "done"
          /\ DocQAStatus # "absent" => ResearchStatus = "done"
          /\ \A t \in TopTasks : Started(t) => tasks[t].runs <= 1
          /\ \A t1, t2 \in TaskNames :
               (t1 # t2 /\ tasks[t1].status # "absent"
                  /\ tasks[t2].status # "absent")
               => tasks[t1].agent # tasks[t2].agent)
    /\ [][HistoryOwned]_vars

C16_Witness ==
    /\ DocQAStatus = "running"
    /\ ResearchStatus = "done"
    /\ FeedbackStatus = "done"
    /\ DebateTerminal
    /\ cycles >= 2
    /\ questions = 1


ResearchExists == ResearchStatus # "absent"

C18_SidesAndLastAgent ==
    /\ pc # "sides"
       => /\ user_agent # ai_agent
          /\ {user_agent, ai_agent} = {"Pro", "Con"}
          /\ side = "pro" => (user_agent = "Pro" /\ ai_agent = "Con")
          /\ side = "con" => (user_agent = "Con" /\ ai_agent = "Pro")
    /\ pc \in {"sides", "mode", "ask", "check", "assign", "raised", "tasks",
               "debate", "running", "last"} => last_agent = NoneVal
    /\ last_agent # NoneVal
       => /\ last_agent \in {user_agent, ai_agent}
          /\ last_agent \in {"Pro", "Con"}
          /\ last_agent \notin {"Feedback", "MetaphorSearch"}
          /\ tasks["feedback_task"].status # "absent"
               => tasks["feedback_task"].agent # last_agent

C18_Witness ==
    /\ side = "con"
    /\ user_agent = "Con"
    /\ ai_agent = "Pro"
    /\ last_agent = "Pro"
    /\ feedback_runs = 1


(* ---------------- lines 81-112: the configuration step ----------------- *)
\* get_base_llm_config as config.py line 23 defines it: no parameters
get_base_llm_config == [positional |-> <<>>, keywords |-> {}]

\* the select_model prompts of lines 89, 104, 107 and 110
CallSites == <<"main LLM", "for Pro Agent", "for Con Agent", "feedback">>

\* the call expressions of lines 88-90, 103-105, 106-108 and 109-111
CallAt(site, m) ==
    [positional |-> <<m>>,
     keywords |-> IF site = "feedback" THEN {"temperature"} ELSE {}]

\* argument binding of a Python call: no more positional arguments than
\* positional parameters, no keyword the function does not declare
Accepts(f, call) ==
    /\ Len(call.positional) <= Len(f.positional)
    /\ call.keywords \subseteq f.keywords

\* line 87: the branch taken
FirstSite(same) == IF same THEN "main LLM" ELSE "for Pro Agent"

\* the call that follows a call inside its branch
NextSite(site) ==
    CASE site = "for Pro Agent" -> "for Con Agent"
      [] site = "for Con Agent" -> "feedback"
      [] OTHER -> NoneVal

\* the assignments that receive the value of the call at a site
Bound(cfgs, site, m) ==
    CASE site = "main LLM" -> Configured(TRUE, m, m, m)
      [] site = "for Pro Agent" ->
           [cfgs EXCEPT !["pro_agent_config"] = BaseConfig(m, "default")]
      [] site = "for Con Agent" ->
           [cfgs EXCEPT !["con_agent_config"] = BaseConfig(m, "default")]
      [] OTHER ->
           [cfgs EXCEPT !["feedback_agent_config"] = BaseConfig(m, "0.2"),
                        !["metaphor_search_agent_config"] =
                            BaseConfig(m, "0.2")]

sessionVars == <<side, agents, roleVars, inputVars, termination, tasks,
                 debateVars, feedbackVars, researchVars>>

InitConfig ==
    /\ pc = "config"
    /\ cfg_pc = "same_llm"
    /\ same_llm = NoneVal
    /\ llm_delegate = NoneVal
    /\ max_turns = NoneVal
    /\ selected_model = NoneVal
    /\ call_site = NoneVal
    /\ configs = [c \in ConfigNames |-> NoConfig]
    /\ side = NoneVal
    /\ agents = [a \in AgentNames |-> NewAgent(NoConfig)]
    /\ user_agent = NoneVal
    /\ ai_agent = NoneVal
    /\ interactive_setting = FALSE
    /\ user_input_response = NoResponseYet
    /\ user_input = Unbound
    /\ asks = 0
    /\ exception = NoException
    /\ termination = NoneVal
    /\ tasks = [t \in TaskNames |-> NoTask]
    /\ cycles = 0
    /\ turn = NoneVal
    /\ msg = NoneVal
    /\ last_agent = NoneVal
    /\ warned = FALSE
    /\ formatted_history = <<>>
    /\ feedback_runs = 0
    /\ metaphor_search = FALSE
    /\ searches = 0
    /\ url_docs_ask_questions = FALSE
    /\ searched_urls = {}
    /\ questions = 0
    /\ ask_questions_config = NoConfigArgs
    /\ research_turn = NoneVal

\* line 81
AskSameLlm ==
    /\ cfg_pc = "same_llm"
    /\ same_llm' \in BOOLEAN
    /\ cfg_pc' = "llm_delegate"
    /\ UNCHANGED <<pc, llm_delegate, max_turns, selected_model, configs,
                   call_site, exception, sessionVars>>

\* line 82
AskLlmDelegate ==
    /\ cfg_pc = "llm_delegate"
    /\ llm_delegate' \in BOOLEAN
    /\ cfg_pc' = "max_turns"
    /\ UNCHANGED <<pc, same_llm, max_turns, selected_model, configs,
                   call_site, exception, sessionVars>>

\* lines 83-87
AskMaxTurns ==
    /\ cfg_pc = "max_turns"
    /\ max_turns' \in 0..MaxTurns
    /\ call_site' = FirstSite(same_llm)
    /\ cfg_pc' = "select"
    /\ UNCHANGED <<pc, same_llm, llm_delegate, selected_model, configs,
                   exception, sessionVars>>

\* the awaited select_model of lines 89, 104, 107, 110: the argument of the
\* call is evaluated before the call is made
SelectModel ==
    /\ cfg_pc = "select"
    /\ selected_model' \in Models
    /\ cfg_pc' = "call"
    /\ UNCHANGED <<pc, same_llm, llm_delegate, max_turns, configs, call_site,
                   exception, sessionVars>>

\* lines 88-102 and 103-112: the call of get_base_llm_config binds its
\* arguments to the parameters of config.py line 23; a call that cannot be
\* bound raises TypeError, which nothing in on_chat_start catches
CallGetBaseLlmConfig ==
    /\ cfg_pc = "call"
    /\ IF Accepts(get_base_llm_config, CallAt(call_site, selected_model))
       THEN /\ configs' = Bound(configs, call_site, selected_model)
            /\ call_site' = NextSite(call_site)
            /\ cfg_pc' = IF NextSite(call_site) = NoneVal
                         THEN "configured" ELSE "select"
            /\ pc' = IF NextSite(call_site) = NoneVal THEN "agents" ELSE pc
            /\ UNCHANGED exception
       ELSE /\ exception' = "TypeError"
            /\ cfg_pc' = "raised"
            /\ pc' = "raised"
            /\ UNCHANGED <<configs, call_site>>
    /\ selected_model' = NoneVal
    /\ UNCHANGED <<same_llm, llm_delegate, max_turns, sessionVars>>

NextConfig ==
    \/ AskSameLlm
    \/ AskLlmDelegate
    \/ AskMaxTurns
    \/ SelectModel
    \/ CallGetBaseLlmConfig

SpecConfig == InitConfig /\ [][NextConfig]_vars

\* C19: for both values of same_llm the configuration step completes without
\* an error: every call of get_base_llm_config that on_chat_start is about to
\* make is accepted by the function as defined, no exception leaves the step
\* and the step does not end in the raised position.
C19_ConfigurationCompletes ==
    /\ cfg_pc = "call"
       => Accepts(get_base_llm_config, CallAt(call_site, selected_model))
    /\ exception = NoException
    /\ cfg_pc # "raised"

=============================================================================
